---------------------------- MODULE Spec2Model ----------------------------
(***************************************************************************)
(* Model of update_year.py: a bulk replacement of the literal "2025" by    *)
(* "2026" in every *.mdx file under src/content/calculators.               *)
(*                                                                         *)
(* A content is a sequence of one-character strings.  The file system is a *)
(* finite set of regular files, each with a place (under the root with the *)
(* .mdx extension, under the root with another extension, outside the      *)
(* root), a content, and a name that standard output can encode or not.    *)
(* Every path names its own file (no symbolic or hard links), and nothing  *)
(* but the script writes the files.  The environment decides, per call,    *)
(* whether reading, opening for writing or writing a file fails, decides   *)
(* whether listing a directory below the root raises, and may kill the     *)
(* process at any point.  The platform is POSIX (os.linesep is a line      *)
(* feed).  Standard output can be written, but print raises on a name it   *)
(* cannot encode, and it is buffered: a killed process loses the lines     *)
(* still in the buffer.                                                    *)
(***************************************************************************)
EXTENDS Integers, Sequences, FiniteSets, TLC

(* ------------------------------ bounds -------------------------------- *)

\* Number of files of the file system in the multi-file specification.
NumFiles == 2

\* Most parts of a content in the single-file specification.
MaxParts == 4

(* ----------------------- constants of the program --------------------- *)

\* content.count('2025') / content.replace('2025', ...): the source string.
SRC == <<"2", "0", "2", "5">>

\* Mutant: the target is the source.
TGT_is_source == <<"2", "0", "2", "5">>

\* content.replace(..., '2026'): the target string.
TGT == <<"2", "0", "2", "6">>

\* Carriage return and line feed.
CR == "\r"

LF == "\n"

\* os.linesep, which a text-mode write puts in place of each line feed.
LineSep == <<LF>>

(* ------------------------------ inputs -------------------------------- *)

\* Pieces the contents of the single-file specification are made of.
Parts == {SRC, <<"2", "0">>, <<"2">>, <<"5">>, <<CR>>, <<LF>>}

RECURSIVE Flatten(_)
Flatten(ps) == IF ps = <<>> THEN <<>> ELSE Head(ps) \o Flatten(Tail(ps))

\* Every concatenation of at most n parts.
Contents(n) == {Flatten(ps) : ps \in UNION {[1..k -> Parts] : k \in 0..n}}

\* Contents of the multi-file specification: no occurrence, one occurrence
\* after a prefix of the source, two adjacent occurrences, one occurrence
\* on a line that ends in CR LF.
SampleContents ==
    { <<"x">>,
      <<"2", "0", "2", "0", "2", "5">>,
      <<"2", "0", "2", "5", "2", "0", "2", "5">>,
      <<"2", "0", "2", "5", CR, LF>> }

\* Where a file lives: matched by rglob('*.mdx') under the root, under the
\* root with another extension, or outside the root.
Places == {"root_mdx", "root_txt", "outside"}

\* State of the root directory src/content/calculators: a directory that
\* can be listed; no such directory; a directory that cannot be listed (no
\* read permission on it); a path that cannot be examined (no search
\* permission on one of its ancestors).
RootStates == {"ok", "missing", "unreadable", "unreachable"}

(* ------------------------- pure functions ----------------------------- *)

RECURSIVE Decode(_)
\* f.read() of a file opened with open(file_path, 'r'): universal newlines,
\* CR LF and a lone CR are both read as LF.
Decode(bytes) ==
    IF bytes = <<>> THEN <<>>
    ELSE IF Head(bytes) = CR
         THEN IF Len(bytes) >= 2 /\ bytes[2] = LF
              THEN <<LF>> \o Decode(SubSeq(bytes, 3, Len(bytes)))
              ELSE <<LF>> \o Decode(Tail(bytes))
         ELSE <<Head(bytes)>> \o Decode(Tail(bytes))

RECURSIVE Encode(_)
\* f.write(text) to a file opened with open(file_path, 'w'): each LF is
\* written as os.linesep.
Encode(text) ==
    IF text = <<>> THEN <<>>
    ELSE (IF Head(text) = LF THEN LineSep ELSE <<Head(text)>>)
         \o Encode(Tail(text))

RECURSIVE CountFrom(_, _, _)
\* str.count(sub): occurrences of sub found scanning left to right, the
\* scan resuming after the end of each occurrence found.
CountFrom(s, sub, i) ==
    IF i + Len(sub) - 1 > Len(s) THEN 0
    ELSE IF SubSeq(s, i, i + Len(sub) - 1) = sub
         THEN 1 + CountFrom(s, sub, i + Len(sub))
         ELSE CountFrom(s, sub, i + 1)

count(s, sub) == CountFrom(s, sub, 1)

RECURSIVE ReplaceFrom(_, _, _, _)
\* str.replace(old, new): every occurrence found by the same scan replaced.
ReplaceFrom(s, old, new, i) ==
    IF i > Len(s) THEN <<>>
    ELSE IF i + Len(old) - 1 <= Len(s) /\ SubSeq(s, i, i + Len(old) - 1) = old
         THEN new \o ReplaceFrom(s, old, new, i + Len(old))
         ELSE <<s[i]>> \o ReplaceFrom(s, old, new, i + 1)

replace(s, old, new) == ReplaceFrom(s, old, new, 1)

\* Mutant: the test of line 19 never succeeds.
NothingFound_never(count_before) == FALSE

\* Line 19: if count_before == 0.
NothingFound(count_before) == count_before = 0

\* Mutant: the file is opened in append mode.
FailedWrite_append(content, new_content) ==
    {content \o Encode(SubSeq(new_content, 1, n)) : n \in 0..Len(new_content)}

\* Lines 26-27 when the write does not complete: open(file_path, 'w') has
\* truncated the file, and any prefix of the new content may have reached
\* the disk.
FailedWrite(content, new_content) ==
    {Encode(SubSeq(new_content, 1, n)) : n \in 0..Len(new_content)}

\* Mutant: rglob('*'), every file under the root.
rglob_all(rootState, places) ==
    IF rootState = "ok"
    THEN {f \in DOMAIN places : places[f] \in {"root_mdx", "root_txt"}}
    ELSE {}

\* base_dir.rglob('*.mdx'): the files the loop of main visits.  A root
\* that is missing or cannot be listed yields an empty enumeration (pathlib
\* takes a missing root for "not a directory" and swallows the
\* PermissionError of the listing).
rglob(rootState, places) ==
    IF rootState = "ok"
    THEN {f \in DOMAIN places : places[f] = "root_mdx"}
    ELSE {}

\* base_dir.rglob('*.mdx') raises: pathlib examines the root with is_dir(),
\* which lets a PermissionError through; nothing in main catches it.
rglob_raises(rootState) == rootState = "unreachable"

\* What a call that raised out of its own handler returned: nothing.
NoRet == -1

(* ------------------------------- state -------------------------------- *)

VARIABLES
    root,                \* state of the root directory
    place,               \* file -> place
    encodable,           \* file -> standard output can encode its path
    disk,                \* file -> content on disk
    start,               \* file -> content when the current run started
    run,                 \* 1 or 2: which invocation of the script
    pc,                  \* where the run is, see PCs
    pending,             \* files the enumeration has not yielded yet
    cur,                 \* the file of the call in progress, NoFile if none
    content,             \* update_year_in_file: content, <<>> outside a call
    replacements,        \* main: replacements, the value the call returned
    total_files,         \* main: total_files
    total_replacements,  \* main: total_replacements
    out,                 \* lines printed by the current run
    calls,               \* file -> calls of update_year_in_file that ended
    wopened,             \* files opened for writing by the current run
    clean1               \* the first run ended with no per-file error

vars == <<root, place, encodable, disk, start, run, pc, pending, cur, content,
          replacements, total_files, total_replacements, out, calls,
          wopened, clean1>>

fsvars == <<root, place, encodable>>

\* main's counters and the ghost of the first run.
mainvars == <<total_files, total_replacements, clean1>>

Files == DOMAIN disk

NoFile == 0

\* "start"  main before the loop            "loop"   at the for statement
\* "read"   in the call, before line 13     "open"   before line 26
\* "write"  before line 27, file truncated  "return" the call has returned
\* "done"   the summary is printed          "killed" the process was killed
\* "crashed" an exception left main: raised by the enumeration (no file is
\*           current) or by a print (the file it names is current)
PCs == {"start", "loop", "read", "open", "write", "return", "done", "killed",
        "crashed"}

OkLine(f, n)      == [kind |-> "OK", file |-> f, n |-> n]
ErrorLine(f)      == [kind |-> "Error", file |-> f, n |-> 0]
SummaryLine(a, b) == [kind |-> "Resumen", file |-> a, n |-> b]

\* Lines 30-32: the exception is caught and the error line printed, then 0
\* is returned; the print of line 31 raises when standard output cannot
\* encode the path, and that exception leaves the call.
ErrorPath(printed, f, enc) ==
    IF enc
    THEN [out |-> Append(printed, ErrorLine(f)), ret |-> 0, esc |-> FALSE]
    ELSE [out |-> printed, ret |-> NoRet, esc |-> TRUE]

\* Mutant: every replacement is counted as one.
LoopBody_plus_one(tf, tr, printed, f, n, enc) ==
    IF n > 0
    THEN [total_files        |-> tf + 1,
          total_replacements |-> tr + 1,
          out                |-> IF enc THEN Append(printed, OkLine(f, n))
                                        ELSE printed,
          esc                |-> ~enc]
    ELSE [total_files |-> tf, total_replacements |-> tr, out |-> printed,
          esc |-> FALSE]

\* Mutant: the test is replacements >= 0.
LoopBody_zero_reported(tf, tr, printed, f, n, enc) ==
    IF n >= 0
    THEN [total_files        |-> tf + 1,
          total_replacements |-> tr + n,
          out                |-> IF enc THEN Append(printed, OkLine(f, n))
                                        ELSE printed,
          esc                |-> ~enc]
    ELSE [total_files |-> tf, total_replacements |-> tr, out |-> printed,
          esc |-> FALSE]

\* main, lines 44-47: what one iteration does with the value n returned for
\* file f, given the counters and the lines printed so far.  The counters
\* are incremented before the print of line 47, which raises when standard
\* output cannot encode the path; nothing catches that exception.
LoopBody(tf, tr, printed, f, n, enc) ==
    IF n > 0
    THEN [total_files        |-> tf + 1,
          total_replacements |-> tr + n,
          out                |-> IF enc THEN Append(printed, OkLine(f, n))
                                        ELSE printed,
          esc                |-> ~enc]
    ELSE [total_files |-> tf, total_replacements |-> tr, out |-> printed,
          esc |-> FALSE]

(* ------------------------------- Init --------------------------------- *)

InitRun ==
    /\ start = disk
    /\ run = 1
    /\ pc = "start"
    /\ pending = {}
    /\ cur = NoFile
    /\ content = <<>>
    /\ replacements = 0
    /\ total_files = 0
    /\ total_replacements = 0
    /\ out = <<>>
    /\ calls = [f \in DOMAIN disk |-> <<>>]
    /\ wopened = {}
    /\ clean1 = FALSE

\* Several files with sample contents, anywhere; no file is under a root
\* that does not exist.  Only the paths of matched files are ever printed,
\* so only their names vary.
Init ==
    /\ root \in RootStates
    /\ place \in [1..NumFiles -> Places]
    /\ root = "missing" => \A f \in 1..NumFiles : place[f] = "outside"
    /\ encodable \in [1..NumFiles -> BOOLEAN]
    /\ \A f \in 1..NumFiles : place[f] # "root_mdx" => encodable[f]
    /\ disk \in [1..NumFiles -> SampleContents]
    /\ InitRun

\* One matched file whose content is any concatenation of MaxParts parts.
InitCount ==
    /\ root = "ok"
    /\ place = [f \in {1} |-> "root_mdx"]
    /\ encodable \in [{1} -> BOOLEAN]
    /\ disk \in [{1} -> Contents(MaxParts)]
    /\ InitRun

(* ------------------------------ actions ------------------------------- *)

\* main, lines 36-42: the counters are zeroed and the enumeration starts,
\* or raises at once and ends the run with nothing printed.  pending is
\* what the enumeration yields if no listing below the root raises.
Enumerate ==
    /\ pc = "start"
    /\ total_files' = 0
    /\ total_replacements' = 0
    /\ IF rglob_raises(root)
       THEN pending' = {} /\ pc' = "crashed"
       ELSE pending' = rglob(root, place) /\ pc' = "loop"
    /\ UNCHANGED <<fsvars, disk, start, run, cur, content, replacements, out,
                   calls, wopened, clean1>>

\* The file the enumeration yields next.  rglob yields the files in the
\* order of the directory listing; here that is the order of the labels,
\* which loses no case: labels are arbitrary and Init gives every
\* assignment of places and contents to them.
NextFile(S) == CHOOSE f \in S : \A g \in S : f <= g

\* The call for the current file ends: what it printed, and what it
\* returns to line 43 unless an exception left it (esc) and leaves main.
EndCall(printed, ret, esc, err, fault) ==
    /\ out' = printed
    /\ replacements' = IF esc THEN replacements ELSE ret
    /\ calls' = [calls EXCEPT ![cur] =
                    Append(@, [ret |-> ret, esc |-> esc, err |-> err,
                               fault |-> fault])]
    /\ content' = <<>>
    /\ pc' = IF esc THEN "crashed" ELSE "return"

\* main, lines 42-43: the enumeration yields a file and the call begins.
CallFile ==
    /\ pc = "loop"
    /\ pending # {}
    /\ cur' = NextFile(pending)
    /\ pending' = pending \ {cur'}
    /\ pc' = "read"
    /\ UNCHANGED <<fsvars, disk, start, run, content, replacements, out,
                   calls, wopened, mainvars>>

\* update_year_in_file, lines 13-20: the file is read and the occurrences
\* counted; the call ends here when the read raises or nothing is found.
ReadFile ==
    /\ pc = "read"
    /\ \/ LET e == ErrorPath(out, cur, encodable[cur])
          IN  EndCall(e.out, e.ret, e.esc, TRUE, "read")
       \/ LET text == Decode(disk[cur])
              count_before == count(text, SRC)
          IN  IF NothingFound(count_before)
              THEN EndCall(out, 0, FALSE, FALSE, "none")
              ELSE /\ content' = text
                   /\ pc' = "open"
                   /\ UNCHANGED <<replacements, out, calls>>
    /\ UNCHANGED <<fsvars, disk, start, run, pending, cur, wopened, mainvars>>

\* update_year_in_file, line 26: open(file_path, 'w') truncates the file,
\* or raises and leaves it alone.
OpenForWriting ==
    /\ pc = "open"
    /\ \/ /\ LET e == ErrorPath(out, cur, encodable[cur])
             IN  EndCall(e.out, e.ret, e.esc, TRUE, "open")
          /\ UNCHANGED <<disk, wopened>>
       \/ /\ disk' = [disk EXCEPT ![cur] = <<>>]
          /\ wopened' = wopened \cup {cur}
          /\ pc' = "write"
          /\ UNCHANGED <<content, replacements, out, calls>>
    /\ UNCHANGED <<fsvars, start, run, pending, cur, mainvars>>

\* update_year_in_file, lines 23-29: the new content is written and the
\* file closed, and the count is returned; or the write raises.
WriteFile ==
    /\ pc = "write"
    /\ LET count_before == count(content, SRC)
           new_content  == replace(content, SRC, TGT)
       IN  \/ /\ \E d \in FailedWrite(content, new_content) :
                    disk' = [disk EXCEPT ![cur] = d]
              /\ LET e == ErrorPath(out, cur, encodable[cur])
                 IN  EndCall(e.out, e.ret, e.esc, TRUE, "write")
           \/ /\ disk' = [disk EXCEPT ![cur] = Encode(new_content)]
              /\ EndCall(out, count_before, FALSE, FALSE, "none")
    /\ UNCHANGED <<fsvars, start, run, pending, cur, wopened, mainvars>>

\* main, lines 43-47: the value returned is counted and the line printed,
\* or the print raises and the exception leaves main.
Account ==
    /\ pc = "return"
    /\ LET m == LoopBody(total_files, total_replacements, out, cur,
                         replacements, encodable[cur])
       IN  /\ total_files' = m.total_files
           /\ total_replacements' = m.total_replacements
           /\ out' = m.out
           /\ IF m.esc
              THEN cur' = cur /\ pc' = "crashed"
              ELSE cur' = NoFile /\ pc' = "loop"
    /\ UNCHANGED <<fsvars, disk, start, run, pending, content, replacements,
                   calls, wopened, clean1>>

\* main, line 42: the enumeration is lazy, it lists one directory at a time
\* between two iterations of the loop; a listing that raises anything but a
\* PermissionError (a path too long, say) is not caught by pathlib or by
\* main and ends the run, whatever was yielded and rewritten before.
EnumerationRaises ==
    /\ pc = "loop"
    /\ root = "ok"
    /\ pc' = "crashed"
    /\ UNCHANGED <<fsvars, disk, start, run, pending, cur, content,
                   replacements, total_files, total_replacements, out, calls,
                   wopened, clean1>>

\* main, lines 49-53: the enumeration is exhausted, the summary is printed.
Summary ==
    /\ pc = "loop"
    /\ pending = {}
    /\ out' = Append(out, SummaryLine(total_files, total_replacements))
    /\ pc' = "done"
    /\ clean1' = IF run = 1
                 THEN \A f \in Files : \A i \in 1..Len(calls[f]) : ~calls[f][i].err
                 ELSE clean1
    /\ UNCHANGED <<fsvars, disk, start, run, pending, cur, content,
                   replacements, total_files, total_replacements, calls,
                   wopened>>

\* What is left of the lines printed when the process is killed: standard
\* output is buffered (by line on a terminal, by block on a pipe or a
\* file), so the lines printed last may never have left the process.
Flushed(printed) == {SubSeq(printed, 1, n) : n \in 0..Len(printed)}

\* The process is killed from outside, at any point of the run.  Killed
\* while writing, any prefix of the new content may have reached the disk.
\* From then on out is what reached standard output.
Kill ==
    /\ pc \in {"start", "loop", "read", "open", "write", "return"}
    /\ pc' = "killed"
    /\ IF pc = "write"
       THEN \E d \in FailedWrite(content, replace(content, SRC, TGT)) :
               disk' = [disk EXCEPT ![cur] = d]
       ELSE UNCHANGED disk
    /\ out' \in Flushed(out)
    /\ UNCHANGED <<fsvars, start, run, pending, cur, content, replacements,
                   total_files, total_replacements, calls, wopened, clean1>>

\* The script is invoked again, after a first run that ended, crashed or
\* was killed.
SecondRun ==
    /\ pc \in {"done", "killed", "crashed"}
    /\ run = 1
    /\ run' = 2
    /\ start' = disk
    /\ pc' = "start"
    /\ pending' = {}
    /\ cur' = NoFile
    /\ content' = <<>>
    /\ replacements' = 0
    /\ total_files' = 0
    /\ total_replacements' = 0
    /\ out' = <<>>
    /\ calls' = [f \in Files |-> <<>>]
    /\ wopened' = {}
    /\ UNCHANGED <<fsvars, disk, clean1>>

\* One invocation of the script.
Next ==
    \/ Enumerate
    \/ CallFile
    \/ ReadFile
    \/ OpenForWriting
    \/ WriteFile
    \/ Account
    \/ EnumerationRaises
    \/ Summary
    \/ Kill

Spec == Init /\ [][Next]_vars

\* One invocation on a single matched file of any content.
SpecCount == InitCount /\ [][Next]_vars

\* Two invocations in succession.
NextTwice == Next \/ SecondRun

SpecTwice == Init /\ [][NextTwice]_vars

\* The scheduler runs the script to its end unless it is killed or an
\* exception leaves main.
FairSpec ==
    Spec /\ WF_vars(Enumerate \/ CallFile \/ ReadFile \/ OpenForWriting
                       \/ WriteFile \/ Account \/ Summary)

(* --------------------- vocabulary of the properties ------------------- *)

\* Positions where an occurrence of w starts in s.
Occ(s, w) == {i \in 1..(Len(s) - Len(w) + 1) : SubSeq(s, i, i + Len(w) - 1) = w}

\* s with every character of every occurrence of SRC replaced by the
\* character of TGT at the same offset, every other character kept.
Expected(s) ==
    [p \in 1..Len(s) |->
        IF \E i \in Occ(s, SRC) : i <= p /\ p <= i + Len(SRC) - 1
        THEN LET i == CHOOSE i \in Occ(s, SRC) : i <= p /\ p <= i + Len(SRC) - 1
             IN  TGT[p - i + 1]
        ELSE s[p]]

IsPrefix(a, b) == Len(a) <= Len(b) /\ a = SubSeq(b, 1, Len(a))

\* A file the run matches: a *.mdx file under a root that can be listed.
Matched(f) == root = "ok" /\ place[f] = "root_mdx"

\* A call for f has ended.
Called(f) == calls[f] # <<>>

\* The iteration of main's loop for f is over.
Passed(f) == Called(f) /\ cur # f

\* The call for f ended in the error path.
Failed(f) == \E i \in 1..Len(calls[f]) : calls[f][i].err

\* f was opened for writing during the current run.
OpenedForWriting(f) == f \in wopened

\* The content a complete call leaves in a file that held s: the text read
\* from s with its occurrences replaced, as it is written.
NewContent(s) == Encode(Expected(Decode(s)))

\* Positions of the "OK" progress lines of the current run, all or for f.
OkLines == {i \in 1..Len(out) : out[i].kind = "OK"}

OkLinesOf(f) == {i \in OkLines : out[i].file = f}

Reported(f) == OkLinesOf(f) # {}

RECURSIVE SumCounts(_)
\* Sum of the counts printed in the lines at the positions of set S.
SumCounts(S) ==
    IF S = {} THEN 0
    ELSE LET i == CHOOSE i \in S : TRUE IN out[i].n + SumCounts(S \ {i})

SummaryPrinted == pc = "done" /\ out # <<>> /\ out[Len(out)].kind = "Resumen"

\* The two numbers of the summary: "Archivos actualizados" and "Total de
\* reemplazos".
SummaryFiles == out[Len(out)].file

SummaryTotal == out[Len(out)].n

\* The files that had an occurrence of "2025" when the run started.
HadOccurrences(f) == Occ(start[f], SRC) # {}

(* ------------------------------ claims -------------------------------- *)

\* C1 (count correctness), as stated: a file that had k >= 1 occurrences of
\* "2025" when the run started and whose call ended without failure
\* returned k, has an "OK" line with the count k once its iteration is
\* over or has ended the run (in a run that was not killed, whose output
\* may be lost), and holds its old content with exactly the characters of
\* those occurrences replaced by those of "2026".
C1_CountCorrectness ==
    \A f \in Files :
        LET k == Cardinality(Occ(start[f], SRC)) IN
        (Called(f) /\ ~Failed(f) /\ k >= 1) =>
            /\ calls[f][1].ret = k
            /\ (pc # "killed" /\ (Passed(f) \/ pc = "crashed")) =>
                   \E i \in OkLinesOf(f) : out[i].n = k
            /\ disk[f] = Expected(start[f])

\* C2 (untouched if absent): a matched file with no occurrence of "2025" at
\* the start of the run is not opened for writing, keeps its content, has
\* no "OK" line, and, at every point of a run that can still reach the
\* summary and at the summary, the totals are those of the other files
\* alone.
C2_UntouchedIfAbsent ==
    \A f \in Files :
        (Matched(f) /\ Occ(start[f], SRC) = {}) =>
            /\ ~OpenedForWriting(f)
            /\ disk[f] = start[f]
            /\ ~Reported(f)
            /\ pc \notin {"start", "killed", "crashed"} =>
                 /\ total_files =
                       Cardinality({g \in Files \ {f} : Reported(g)})
                 /\ total_replacements =
                       SumCounts(OkLines \ OkLinesOf(f))

\* C2 witness: the run is over, a matched file without occurrences was
\* read without error, and another file was updated.
C2_Witness ==
    /\ pc = "done" /\ run = 1
    /\ \E f \in Files :
          /\ Matched(f) /\ Occ(start[f], SRC) = {}
          /\ Called(f) /\ ~Failed(f)
    /\ total_files = 1

\* C3 as stated (aggregate consistency): at the summary the total of
\* replacements is the sum of the counts of the "OK" lines and the number of
\* files is the number of matched files that had occurrences, failed or not.
C3_Original ==
    SummaryPrinted =>
        /\ SummaryTotal = SumCounts(OkLines)
        /\ SummaryFiles =
              Cardinality({f \in Files : Matched(f) /\ HadOccurrences(f)})

\* C3 amended: the number of files is the number of matched files that had
\* occurrences and whose call did not fail.
C3_AggregateConsistency ==
    SummaryPrinted =>
        /\ SummaryTotal = SumCounts(OkLines)
        /\ SummaryFiles =
              Cardinality({f \in Files :
                              Matched(f) /\ HadOccurrences(f) /\ ~Failed(f)})

\* C3 witness: a summary after one file with occurrences failed and another
\* one was updated.
C3_Witness ==
    /\ SummaryPrinted
    /\ \E f, g \in Files :
          /\ Matched(f) /\ HadOccurrences(f) /\ Failed(f)
          /\ Matched(g) /\ HadOccurrences(g) /\ ~Failed(g)
    /\ SummaryFiles = 1

\* C4 as stated: when the run is over, a matched file is reported (it has an
\* "OK" line) exactly when it had occurrences, failed or not.
C4_Original ==
    pc = "done" =>
        \A f \in Files : Matched(f) => (Reported(f) <=> HadOccurrences(f))

\* C4 amended: when the run is over, a matched file is reported and counted
\* exactly when it had occurrences and its call did not fail.
C4_ReportedIff ==
    pc = "done" =>
        /\ \A f \in Files :
              Matched(f) => (Reported(f) <=> HadOccurrences(f) /\ ~Failed(f))
        /\ total_files = Cardinality({f \in Files : Reported(f)})

\* C4 witness: the run is over and a matched file with occurrences failed
\* and is not reported.
C4_Witness ==
    /\ pc = "done"
    /\ \E f \in Files :
          Matched(f) /\ HadOccurrences(f) /\ Failed(f) /\ ~Reported(f)

\* The call for f raised: the read, the opening for writing or the write
\* failed.
Raised(f) == Called(f) /\ calls[f][1].fault \in {"read", "open", "write"}

\* The run ended because the enumeration raised.
EnumerationRaised == pc = "crashed" /\ cur = NoFile

\* C5 (a per-file failure is not fatal), as stated: a call in which the
\* read, the opening or the write raised caught the exception, returned 0
\* and printed an error line naming the file (in a run that was not killed,
\* whose output may be lost); the file has no "OK" line and, while the run
\* goes on and at the summary, adds nothing to the totals; a finished run
\* called every matched file and printed the summary; and after such a
\* call the run goes on until it prints the summary, is killed, or the
\* enumeration raises.
C5_Safety ==
    /\ \A f \in Files :
          Raised(f) =>
             /\ calls[f][1].err
             /\ ~calls[f][1].esc
             /\ calls[f][1].ret = 0
             /\ pc # "killed" => \E i \in 1..Len(out) : out[i] = ErrorLine(f)
             /\ ~Reported(f)
             /\ pc \notin {"killed", "crashed"} =>
                   /\ total_files =
                         Cardinality({g \in Files \ {f} : Reported(g)})
                   /\ total_replacements = SumCounts(OkLines \ OkLinesOf(f))
    /\ pc = "done" =>
          /\ SummaryPrinted
          /\ \A f \in Files : Matched(f) => Called(f)

C5_FailureNotFatal ==
    /\ []C5_Safety
    /\ (\E f \in Files : Raised(f))
          ~> (pc \in {"done", "killed"} \/ EnumerationRaised)

\* C6, as stated (a failed enumeration is fatal): with the root missing or
\* unreadable the run never completes normally with a summary, and no file
\* is opened for writing or changed.
C6_Original ==
    root # "ok" =>
        /\ ~SummaryPrinted
        /\ wopened = {}
        /\ \A f \in Files : disk[f] = start[f]

\* C7 (idempotence): in a second run directly after a first run that ended
\* with no per-file error, no file is opened for writing or changed, no
\* "OK" line is printed, and the summary says 0 files and 0 replacements.
C7_Idempotence ==
    (run = 2 /\ clean1) =>
        /\ \A f \in Files : ~OpenedForWriting(f) /\ disk[f] = start[f]
        /\ OkLines = {}
        /\ total_files = 0
        /\ total_replacements = 0
        /\ pc = "done" => SummaryPrinted /\ SummaryFiles = 0 /\ SummaryTotal = 0

\* C7 witness: the second run is over, after a first run that updated a file
\* which the second run read again.
C7_Witness ==
    /\ run = 2 /\ clean1 /\ SummaryPrinted
    /\ \E f \in Files :
          Called(f) /\ ~Failed(f) /\ Occ(disk[f], TGT) # {}

\* C8 (non-matching files untouched): a file that is not a *.mdx file under
\* the root is never enumerated, called or opened for writing, and keeps its
\* content.
C8_NonMatchingUntouched ==
    \A f \in Files :
        place[f] # "root_mdx" =>
            /\ f \notin pending
            /\ f # cur
            /\ ~Called(f)
            /\ ~OpenedForWriting(f)
            /\ disk[f] = start[f]

\* C8 witness: the run is over and updated a file, and a file that is not
\* matched still holds "2025".
C8_Witness ==
    /\ pc = "done"
    /\ total_files >= 1
    /\ \E f \in Files : place[f] # "root_mdx" /\ Occ(disk[f], SRC) # {}

\* C9 (single sequential pass), the part about states: no file is called
\* twice; during and after the loop the matched files no longer pending are
\* those called or in the call under way; a finished run has called every
\* matched file once and printed the summary; a file already passed that
\* had occurrences and did not fail holds its old content with the
\* occurrences replaced; a file not reached yet holds its original content.
C9_Inv ==
    /\ \A f \in Files : Len(calls[f]) <= 1
    /\ pc \notin {"start", "killed", "crashed"} =>
          \A f \in Files :
              Matched(f) => ((Called(f) \/ f = cur) <=> f \notin pending)
    /\ pc = "done" =>
          /\ SummaryPrinted
          /\ \A f \in Files : Matched(f) => Len(calls[f]) = 1
    /\ \A f \in Files :
          /\ (Called(f) /\ HadOccurrences(f) /\ ~Failed(f)) =>
                 disk[f] = Expected(start[f])
          /\ (~Called(f) /\ f # cur) => disk[f] = start[f]

\* C9, the part about steps: within a run a step ends the call of at most
\* one file and changes the content of no other file.
C9_Step ==
    run' = run =>
        \A f, g \in Files :
            (f # g /\ calls'[f] # calls[f]) =>
                calls'[g] = calls[g] /\ disk'[g] = disk[g]

\* C9, as stated: both parts, and a run that is not killed ends with the
\* summary.
C9_SinglePass ==
    /\ []C9_Inv
    /\ [][C9_Step]_vars
    /\ (pc = "start") ~> (pc \in {"done", "killed"})

\* C10 as stated (a failure leaves the file as it was): a file whose call
\* ended in the error path holds the content it had before the call.
C10_Original ==
    \A f \in Files : Failed(f) => disk[f] = start[f]

\* C10 amended: the content is unchanged when the read or the opening for
\* writing failed; when the write failed the file, truncated by the opening,
\* holds a prefix of the new content.
C10_FailureEffect ==
    \A f \in Files :
        Failed(f) =>
            /\ calls[f][1].fault \in {"read", "open"} => disk[f] = start[f]
            /\ calls[f][1].fault = "write" =>
                  IsPrefix(disk[f], NewContent(start[f]))

\* C10 witness: a write failed and left the file empty.
C10_Witness ==
    \E f \in Files :
        /\ Failed(f)
        /\ calls[f][1].fault = "write"
        /\ disk[f] = <<>>
        /\ start[f] # <<>>

=============================================================================
